---- MODULE Spec2Model ----
(***************************************************************************)
(* A model of farm/modeling/biadaptive_model.py: the BiAdaptiveModel that  *)
(* binds two language models and N prediction heads, its forward pass, its *)
(* loss aggregation, its predictions and their formatting, the             *)
(* head/processor binding, save/load and the conversion to transformers;   *)
(* the ONNXBiAdaptiveModel; and the load of BaseBiAdaptiveModel that       *)
(* selects between the two.                                                *)
(***************************************************************************)
EXTENDS Integers, Sequences, FiniteSets, TLC

(***************************************************************************)
(* Bounds of the model.                                                    *)
(***************************************************************************)
\* the largest number of prediction heads a constructed model has
MaxHeads == 5
\* number of samples in the batch that is pushed through the model
BatchSize == 3
\* largest global_step passed to logits_to_loss
MaxStep == 1
\* a number of prediction heads whose save indices reach two digits
ManyHeads == 11

(***************************************************************************)
(* Python values.  Every value the model passes around is a record of the  *)
(* same shape, so that two values of different Python types can be         *)
(* compared: t is the type, v a scalar payload, items the elements.        *)
(***************************************************************************)
PyNone == [t |-> "None", v |-> 0, items |-> <<>>]
PyInt(n) == [t |-> "int", v |-> n, items |-> <<>>]
PyList(s) == [t |-> "list", v |-> 0, items |-> s]
PyTuple(s) == [t |-> "tuple", v |-> 0, items |-> s]
\* a dict; v = 1 iff the key "predictions" is in it
PyDict(hasPredictions) == [t |-> "dict", v |-> IF hasPredictions THEN 1 ELSE 0, items |-> <<>>]
\* a tensor of per-sample scalars
PyTensor(s) == [t |-> "tensor", v |-> 0, items |-> s]
\* a string
PyStr(s) == [t |-> "str", v |-> s, items |-> <<>>]
\* a pathlib.Path, of the directory entry e
PyPath(e) == [t |-> "path", v |-> 0, items |-> <<e>>]
\* an instance of class cls
PyInstance(cls) == [t |-> "instance", v |-> cls, items |-> <<>>]
\* the pooled output of language model k (k = 1, 2)
Pooled(k) == [t |-> "pooled", v |-> k, items |-> <<>>]
\* the logits computed by the head with task_name h
HeadLogits(h) == [t |-> "logits", v |-> h, items |-> <<>>]
\* the formatted prediction of the head with task_name h
HeadPred(h) == [t |-> "formatted", v |-> h, items |-> <<>>]
\* the formatted output of language model k
LMPred(k) == [t |-> "lm_formatted", v |-> k, items |-> <<>>]

RECURSIVE Concat(_)
\* the concatenation of a sequence of sequences
Concat(ss) ==
    IF ss = <<>> THEN <<>> ELSE Head(ss) \o Concat(Tail(ss))

Min(a, b) == IF a < b THEN a ELSE b

Min3(a, b, c) == Min(a, Min(b, c))

(***************************************************************************)
(* Constructor arguments.                                                  *)
(***************************************************************************)
Languages == {"english", "german"}

ValidModes == {"per_sequence", "per_sequence_continuous"}

Modes == ValidModes \cup {"per_token"}

\* an lm_output_types argument: a single string or a list of strings
StrArg(s) == [str |-> TRUE, s |-> s, l |-> <<>>]

ListArg(l) == [str |-> FALSE, s |-> "", l |-> l]

\* the default value of lm1_output_types and lm2_output_types
DefaultOutputTypes == ListArg(<<"per_sequence">>)

\* a list with one mode per head: per_sequence, but mode m at position p
TypesWith(n, p, m) == [i \in 1..n |-> IF i = p THEN m ELSE "per_sequence"]

\* the lists of n modes that are all per_sequence, or have per_sequence_continuous
\* first, or have per_token at one position
TypeLists(n) ==
    {TypesWith(n, 0, "per_sequence"), TypesWith(n, Min(n, 1), "per_sequence_continuous")}
    \cup {TypesWith(n, p, "per_token") : p \in 1..n}

\* a list argument with one plain mode per head
PlainTypes(n) == ListArg(TypesWith(n, 0, "per_sequence"))

\* the (lm1_output_types, lm2_output_types) arguments a model of n heads is built with
OutputTypeArgs(n) ==
    {<<DefaultOutputTypes, DefaultOutputTypes>>, <<StrArg("per_sequence_continuous"), StrArg("per_sequence")>>}
    \cup {<<ListArg(l), PlainTypes(n)>> : l \in TypeLists(n)}
    \cup {<<PlainTypes(n), ListArg(l)>> : l \in TypeLists(n)}

\* self.lmX_output_types: a string argument becomes a one-element list
NormOutputTypes(arg) == IF arg.str THEN <<arg.s>> ELSE arg.l

\* the loss aggregation functions a caller passes; "" is None (not supplied)
AggregationArgs == {"", "round_robin"}

\* a freshly built prediction head: no label_tensor_name, label_list, metric
\* yet; a text similarity head with one feed-forward layer
NewHead(task, merge) ==
    [task_name |-> task, merge |-> merge, attrs |-> {},
     label_tensor_name |-> "", label_list |-> PyNone, metric |-> "",
     layer_dims |-> <<768, 2>>, model_type |-> "text_similarity"]

\* the layer_dims of a head with no, one and two feed-forward layers
LayerDims == {<<768>>, <<768, 2>>, <<768, 128, 2>>}

\* head.model_type
ModelTypes == {"language_modelling", "text_similarity"}

\* the head sequences a model of n heads is built with: head i has task i,
\* and the heads that expose merge_formatted_preds are among the first two
HeadLists(n) ==
    {[i \in 1..n |-> NewHead(i, i \in M)] : M \in SUBSET (1..Min(n, 2))}

HeadCounts == {0, 1, 2, MaxHeads}

\* the constructor arguments the model is built with, for n heads:
\* [heads, types1, types2, agg, lang].  Three families: the output types vary;
\* the heads' merge capability and the aggregation function vary; the
\* languages vary.
ConstructorArgs(n) ==
    {[heads |-> [i \in 1..n |-> NewHead(i, FALSE)], types1 |-> t[1], types2 |-> t[2],
      agg |-> "", lang |-> <<"english", "german">>] : t \in OutputTypeArgs(n)}
    \cup {[heads |-> h, types1 |-> PlainTypes(n), types2 |-> PlainTypes(n), agg |-> a,
           lang |-> <<"english", "german">>] : h \in HeadLists(n), a \in AggregationArgs}
    \cup {[heads |-> [i \in 1..n |-> NewHead(i, FALSE)], types1 |-> DefaultOutputTypes,
           types2 |-> DefaultOutputTypes, agg |-> a, lang |-> l] :
            a \in AggregationArgs, l \in Languages \X Languages}

(***************************************************************************)
(* The names bound in the module's namespace: its imports and its own      *)
(* definitions.  A call of any other name raises NameError.                *)
(***************************************************************************)
ModuleGlobals ==
    {"copy", "json", "logging", "os", "Namespace", "Path", "multiprocessing", "numpy",
     "torch", "nn", "optimize_onnx_model", "DataSilo", "LanguageModel", "PredictionHead",
     "TextSimilarityHead", "Tokenizer", "MlLogger", "stack", "logger",
     "BaseBiAdaptiveModel", "loss_per_head_sum", "BiAdaptiveModel", "ONNXBiAdaptiveModel",
     "ONNXWrapper"}

NameBound(name) == name \in ModuleGlobals

(***************************************************************************)
(* The task table of a processor.                                          *)
(***************************************************************************)
TableVersions == {1, 2}

GoodLabels(v) ==
    IF v = 1 THEN PyList(<<PyInt(1), PyInt(2)>>) ELSE PyList(<<PyInt(3)>>)

\* the task names a table has an entry for
TaskNames == 1..(IF ManyHeads > MaxHeads THEN ManyHeads ELSE MaxHeads)

\* tasks[task_name] for table version v; the task `bad` (0: none) has the label
\* list badList (an empty list, or None)
Tasks(v, bad, badList) ==
    [task \in TaskNames |->
        [label_tensor_name |-> IF v = 1 THEN "label_ids" ELSE "label_ids_2",
         label_list |-> IF task = bad THEN badList ELSE GoodLabels(v),
         metric |-> IF v = 1 THEN "squad" ELSE "acc"]]

BadLabelLists == {PyList(<<>>), PyNone}

\* the tasks whose label list a table of n tasks may lack: none (0), the first,
\* the second or the last
BadTasks(n) == {0, 1, 2, n} \cap (0..n)

\* Python's truth value of a label list
Truthy(x) == ~(x.t = "None" \/ (x.t = "list" /\ x.items = <<>>))

VARIABLES
    prediction_heads,     \* self.prediction_heads
    lm1_output_types,     \* self.lm1_output_types
    lm2_output_types,     \* self.lm2_output_types
    loss_aggregation_fn,  \* self.loss_aggregation_fn (its name)
    language,             \* <<language_model1.language, language_model2.language>>
    logits,               \* what the last forward returned (PyNone before)
    calls,                \* the collaborator calls the last operation made, in order
    ret,                  \* the outcome of the last operation
    disk,                 \* the contents of the save directory
    loaded,               \* the model the last load returned
    onnx                  \* the ONNXBiAdaptiveModel instance (NoOnnx before one is built)

vars == <<prediction_heads, lm1_output_types, lm2_output_types, loss_aggregation_fn,
          language, logits, calls, ret, disk, loaded, onnx>>

config == <<lm1_output_types, lm2_output_types, loss_aggregation_fn, language>>

\* a call of method fn on a collaborator (obj: "head", "lm1", "lm2", "dropout1",
\* "dropout2"; idx: the head's position, 0 otherwise) with argument arg
Call(obj, idx, fn, arg) == [obj |-> obj, idx |-> idx, fn |-> fn, arg |-> arg]

\* an operation's outcome: it returned value, or raised exc; arg is the
\* arguments the operation was called with (where a property needs them) and
\* head what the single head of formatted_preds returned
Returned(op, value) ==
    [op |-> op, status |-> "ok", exc |-> "", value |-> value, arg |-> PyNone, head |-> PyNone]

Raised(op, exc) ==
    [op |-> op, status |-> "raise", exc |-> exc, value |-> PyNone, arg |-> PyNone, head |-> PyNone]

NoModel == [built |-> FALSE, prediction_heads |-> <<>>, lm1_output_types |-> <<>>,
            lm2_output_types |-> <<>>, loss_aggregation_fn |-> "", language |-> <<"", "">>]

\* a directory: the languages of the models saved under lm1 and lm2 ("" when
\* there is none), the "language" entry of model_config.json (<<>> when there
\* is no such file), and the files
EmptyDir == [lm1 |-> "", lm2 |-> "", model_config |-> <<>>, files |-> {}]

NoOnnx == [built |-> FALSE, prediction_heads |-> <<>>, language |-> <<"", "">>, device |-> "",
           runtime |-> ""]

(***************************************************************************)
(* BiAdaptiveModel.__init__                                                *)
(***************************************************************************)
\* the default loss aggregation function is loss_per_head_sum
InitAggregation(arg) == IF arg = "" THEN "loss_per_head_sum" ELSE arg

\* the fields __init__ sets
NewModel(heads, types1, types2, agg, lang) ==
    [built |-> TRUE,
     prediction_heads |-> heads,
     lm1_output_types |-> NormOutputTypes(types1),
     lm2_output_types |-> NormOutputTypes(types2),
     loss_aggregation_fn |-> InitAggregation(agg),
     language |-> lang]

Construct(a) ==
    LET m == NewModel(a.heads, a.types1, a.types2, a.agg, a.lang) IN
    /\ prediction_heads = m.prediction_heads
    /\ lm1_output_types = m.lm1_output_types
    /\ lm2_output_types = m.lm2_output_types
    /\ loss_aggregation_fn = m.loss_aggregation_fn
    /\ language = m.language

Init ==
    /\ \E n \in HeadCounts : \E a \in ConstructorArgs(n) : Construct(a)
    /\ logits = PyNone
    /\ calls = <<>>
    /\ ret = Returned("__init__", PyNone)
    /\ disk = EmptyDir
    /\ loaded = NoModel
    /\ onnx = NoOnnx

(***************************************************************************)
(* BiAdaptiveModel.forward                                                 *)
(***************************************************************************)
\* forward_lm: both language models run, the pooled outputs are kept
ForwardLMCalls == <<Call("lm1", 0, "forward", PyNone), Call("lm2", 0, "forward", PyNone)>>

\* a check that lets per_token through
ModeOkAny(m) == m \in Modes

ModeOk(m) == m = "per_sequence" \/ m = "per_sequence_continuous"

\* zip(self.prediction_heads, self.lm1_output_types, self.lm2_output_types)
ZipLen == Min3(Len(prediction_heads), Len(lm1_output_types), Len(lm2_output_types))

RECURSIVE ForwardLoop(_, _, _)
\* the loop over the zipped heads from position i on, with the logits and the
\* calls collected so far in acc: [logits, calls, exc]
ForwardLoop(i, n, acc) ==
    IF i > n THEN acc
    ELSE IF ~ModeOk(lm1_output_types[i])
    THEN [acc EXCEPT !.exc = "ValueError"]
    ELSE IF ~ModeOk(lm2_output_types[i])
    THEN [acc EXCEPT !.exc = "ValueError",
                     !.calls = @ \o <<Call("dropout1", 0, "forward", Pooled(1))>>]
    ELSE ForwardLoop(i + 1, n,
           [acc EXCEPT !.logits = Append(@, HeadLogits(prediction_heads[i].task_name)),
                       !.calls = @ \o <<Call("dropout1", 0, "forward", Pooled(1)),
                                        Call("dropout2", 0, "forward", Pooled(2)),
                                        Call("head", i, "forward", PyTuple(<<Pooled(1), Pooled(2)>>))>>])

ForwardResult ==
    IF Len(prediction_heads) > 0
    THEN ForwardLoop(1, ZipLen, [logits |-> <<>>, calls |-> ForwardLMCalls, exc |-> ""])
    ELSE [logits |-> <<PyTuple(<<Pooled(1), Pooled(2)>>)>>, calls |-> ForwardLMCalls, exc |-> ""]

Forward ==
    LET r == ForwardResult IN
    /\ calls' = r.calls
    /\ IF r.exc = ""
       THEN /\ ret' = Returned("forward", PyList(r.logits))
            /\ logits' = PyList(r.logits)
       ELSE /\ ret' = Raised("forward", r.exc)
            /\ UNCHANGED logits
    /\ UNCHANGED <<prediction_heads, config, disk, loaded, onnx>>

(***************************************************************************)
(* BaseBiAdaptiveModel.connect_heads_with_processor                        *)
(***************************************************************************)
\* a loop body that does not look at the label list
ConnectHeadUnchecked(h, tasks, require_labels) ==
    LET task == tasks[h.task_name] IN
    [head |-> [h EXCEPT !.label_tensor_name = task.label_tensor_name,
                        !.label_list = task.label_list,
                        !.metric = task.metric,
                        !.attrs = @ \cup {"label_tensor_name", "label_list", "metric"}],
     exc |-> ""]

\* a loop body that leaves a head alone once it has a metric
ConnectHeadKeep(h, tasks, require_labels) ==
    LET task == tasks[h.task_name] IN
    IF "metric" \in h.attrs THEN [head |-> h, exc |-> ""]
    ELSE [head |-> [h EXCEPT !.label_tensor_name = task.label_tensor_name,
                             !.label_list = task.label_list,
                             !.metric = task.metric,
                             !.attrs = @ \cup {"label_tensor_name", "label_list", "metric"}],
          exc |-> IF ~Truthy(task.label_list) /\ require_labels THEN "Exception" ELSE ""]

\* one pass of the loop body for head h: [head, exc]
ConnectHead(h, tasks, require_labels) ==
    LET task == tasks[h.task_name]
        h1 == [h EXCEPT !.label_tensor_name = task.label_tensor_name,
                        !.attrs = @ \cup {"label_tensor_name"}]
        label_list == task.label_list
        h2 == [h1 EXCEPT !.label_list = label_list, !.attrs = @ \cup {"label_list"}]
        h3 == [h2 EXCEPT !.metric = task.metric, !.attrs = @ \cup {"metric"}]
    IN  IF ~Truthy(label_list) /\ require_labels
        THEN [head |-> h1, exc |-> "Exception"]
        ELSE IF label_list.t = "None"
        THEN [head |-> h2, exc |-> "TypeError"]     \* len(None)
        ELSE [head |-> h3, exc |-> ""]

RECURSIVE ConnectLoop(_, _, _, _)
\* the loop over the heads from position i on: [heads, exc]
ConnectLoop(heads, i, tasks, require_labels) ==
    IF i > Len(heads) THEN [heads |-> heads, exc |-> ""]
    ELSE LET r == ConnectHead(heads[i], tasks, require_labels)
             hs == [heads EXCEPT ![i] = r.head]
         IN  IF r.exc # "" THEN [heads |-> hs, exc |-> r.exc]
             ELSE ConnectLoop(hs, i + 1, tasks, require_labels)

ConnectHeadsWithProcessor(tasks, require_labels) ==
    LET r == ConnectLoop(prediction_heads, 1, tasks, require_labels) IN
    /\ prediction_heads' = r.heads
    /\ ret' = IF r.exc = "" THEN Returned("connect_heads_with_processor", PyNone)
              ELSE Raised("connect_heads_with_processor", r.exc)
    /\ calls' = <<>>
    /\ UNCHANGED <<config, logits, disk, loaded, onnx>>

Connect ==
    \E v \in TableVersions, bad \in BadTasks(Len(prediction_heads)), badList \in BadLabelLists,
       require_labels \in BOOLEAN :
        ConnectHeadsWithProcessor(Tasks(v, bad, badList), require_labels)

(***************************************************************************)
(* BiAdaptiveModel.logits_to_loss                                          *)
(***************************************************************************)
\* head.logits_to_loss: the per-sample loss vector of the head with task h
HeadLoss(h) == [s \in 1..BatchSize |-> (h - 1) * BatchSize + s]

RECURSIVE LossPerHeadLoop(_, _, _)
\* logits_to_loss_per_head over zip(self.prediction_heads, logits) from pair i
\* on: [losses, calls, exc]
LossPerHeadLoop(i, n, acc) ==
    IF i > n THEN acc
    ELSE IF "label_tensor_name" \notin prediction_heads[i].attrs
    THEN [acc EXCEPT !.exc = "AssertionError"]
    ELSE LossPerHeadLoop(i + 1, n,
           [acc EXCEPT !.losses = Append(@, HeadLoss(prediction_heads[i].task_name)),
                       !.calls = Append(@, Call("head", i, "logits_to_loss", logits.items[i]))])

LogitsToLossPerHead ==
    LossPerHeadLoop(1, Min(Len(prediction_heads), Len(logits.items)),
                    [losses |-> <<>>, calls |-> <<>>, exc |-> ""])

RECURSIVE TensorSum(_, _)
\* Python's sum(): 0 + l[0] + l[1] + ..., the tensors added element-wise (acc
\* is the running total, the int 0 at first)
TensorSum(acc, l) ==
    IF l = <<>> THEN acc
    ELSE TensorSum(IF acc.t = "int"
                   THEN PyTensor([s \in 1..Len(Head(l)) |-> PyInt(acc.v + Head(l)[s])])
                   ELSE PyTensor([s \in 1..Len(Head(l)) |-> PyInt(acc.items[s].v + Head(l)[s])]),
                   Tail(l))

\* an aggregation that keeps the first head's loss only
loss_per_head_first(loss_per_head) ==
    [value |-> TensorSum(PyInt(0), SubSeq(loss_per_head, 1, Min(1, Len(loss_per_head)))), exc |-> ""]

RECURSIVE TotalOf(_)
\* the sum of the entries of a sequence of ints
TotalOf(items) == IF items = <<>> THEN 0 ELSE Head(items).v + TotalOf(Tail(items))

\* an aggregation that also sums over the samples, to one scalar
loss_per_head_total(loss_per_head) ==
    [value |-> PyInt(TotalOf(TensorSum(PyInt(0), loss_per_head).items)), exc |-> ""]

\* loss_per_head_sum(loss_per_head): [value, exc]
loss_per_head_sum(loss_per_head) ==
    [value |-> TensorSum(PyInt(0), loss_per_head), exc |-> ""]

\* a caller's aggregation function for round-robin multitask learning: the loss
\* of the head whose turn it is at global_step
round_robin(loss_per_head, global_step) ==
    IF loss_per_head = <<>>
    THEN [value |-> PyNone, exc |-> "ZeroDivisionError"]
    ELSE LET l == loss_per_head[(global_step % Len(loss_per_head)) + 1]
         IN  [value |-> PyTensor([s \in 1..Len(l) |-> PyInt(l[s])]), exc |-> ""]

\* self.loss_aggregation_fn(all_losses, global_step=global_step, batch=kwargs)
Aggregate(all_losses, global_step) ==
    IF loss_aggregation_fn = "loss_per_head_sum"
    THEN loss_per_head_sum(all_losses)
    ELSE round_robin(all_losses, global_step)

LogitsToLossResult(global_step) ==
    LET per_head == LogitsToLossPerHead IN
    IF per_head.exc # ""
    THEN [value |-> PyNone, exc |-> per_head.exc, calls |-> per_head.calls]
    ELSE LET loss == Aggregate(per_head.losses, global_step)
         IN  [value |-> loss.value, exc |-> loss.exc, calls |-> per_head.calls]

\* logits_to_loss on the logits the last forward returned
LogitsToLoss ==
    /\ logits # PyNone
    /\ \E global_step \in 0..MaxStep :
         LET r == LogitsToLossResult(global_step) IN
         /\ ret' = IF r.exc = "" THEN Returned("logits_to_loss", r.value)
                   ELSE Raised("logits_to_loss", r.exc)
         /\ calls' = r.calls
    /\ UNCHANGED <<prediction_heads, config, logits, disk, loaded, onnx>>

(***************************************************************************)
(* BaseBiAdaptiveModel.logits_to_preds                                     *)
(***************************************************************************)
\* head.logits_to_preds(logits=l) of the head with task h
HeadPreds(h, l) == [t |-> "preds", v |-> h, items |-> <<l>>]

\* the loop over zip(self.prediction_heads, logits): [preds, calls]
LogitsToPredsResult ==
    LET n == Min(Len(prediction_heads), Len(logits.items)) IN
    [preds |-> [i \in 1..n |-> HeadPreds(prediction_heads[i].task_name, logits.items[i])],
     calls |-> [i \in 1..n |-> Call("head", i, "logits_to_preds", logits.items[i])]]

\* logits_to_preds on the logits the last forward returned
LogitsToPreds ==
    /\ logits # PyNone
    /\ ret' = Returned("logits_to_preds", PyList(LogitsToPredsResult.preds))
    /\ calls' = LogitsToPredsResult.calls
    /\ UNCHANGED <<prediction_heads, config, logits, disk, loaded, onnx>>

(***************************************************************************)
(* BaseBiAdaptiveModel.formatted_preds                                     *)
(***************************************************************************)
\* the `preds` a caller passes in kwargs: one entry per batch, each holding one
\* list of predictions per head
PredsArgs ==
    {PyList(<<PyList(<<PyList(<<PyInt(1), PyInt(2)>>)>>), PyList(<<PyList(<<PyInt(3)>>)>>)>>),
     PyList(<<PyList(<<PyList(<<PyInt(1)>>), PyList(<<PyInt(2)>>)>>)>>),
     PyList(<<>>)}

\* the kwargs of a formatted_preds call
KwArgs ==
    {[has_preds |-> TRUE, preds |-> p, has_baskets |-> b] : p \in PredsArgs, b \in BOOLEAN}
    \cup {[has_preds |-> FALSE, preds |-> PyNone, has_baskets |-> b] : b \in BOOLEAN}

\* what the single head's formatted_preds may return
HeadResults(h) ==
    {PyList(<<>>), PyList(<<HeadPred(h)>>), PyList(<<HeadPred(h), HeadPred(h)>>),
     PyDict(TRUE), PyDict(FALSE), PyNone}

\* a flattening that does not take y[0] first
PredsFlatEntries(preds) ==
    PyList(Concat([k \in 1..Len(preds.items) |-> preds.items[k].items]))

\* temp = [y[0] for y in preds]; preds_flat = [item for sublist in temp for item in sublist]
PredsFlat(preds) ==
    PyList(Concat([k \in 1..Len(preds.items) |-> preds.items[k].items[1].items]))

\* farm.utils.stack: the per-batch per-head lists regrouped by head
stack(preds) ==
    [h \in 1..Len(preds.items[1].items) |->
        PyList(Concat([k \in 1..Len(preds.items) |-> preds.items[k].items[h].items]))]

\* farm.utils.pick_single_fn: the position of the only head that has the
\* capability, 0 when none or several have it
pick_single_fn(heads) ==
    LET have == {i \in 1..Len(heads) : heads[i].merge}
    IN  IF Cardinality(have) = 1 THEN CHOOSE i \in have : TRUE ELSE 0

\* head.merge_formatted_preds(preds_final) of the head with task h
Merged(h, preds_final) == [t |-> "merged", v |-> h, items |-> <<preds_final>>]

\* n_heads == 0: both language models format, then `return preds_final`, a
\* name this branch never assigns
FormattedPredsNoHead ==
    [calls |-> <<Call("lm1", 0, "formatted_preds", logits), Call("lm2", 0, "formatted_preds", logits)>>,
     exc |-> "UnboundLocalError", value |-> PyNone]

\* n_heads == 1, the head returning r
FormattedPredsOneHead(kwargs, r) ==
    LET preds == IF kwargs.has_preds THEN PredsFlat(kwargs.preds) ELSE PyNone IN
    IF logits.t # "list"
    THEN [calls |-> <<>>, exc |-> "TypeError", value |-> PyNone]     \* None[0]
    ELSE [calls |-> <<Call("head", 1, "formatted_preds", preds)>>,
          exc |-> "",
          value |-> IF r.t = "list" THEN PyList(<<>> \o r.items)
                    ELSE IF r.t = "dict" /\ r.v = 1 THEN PyList(<<r>>)
                    ELSE PyList(<<>>)]

\* n_heads > 1
FormattedPredsMultiHead(kwargs) ==
    LET n_heads == Len(prediction_heads) IN
    IF ~kwargs.has_preds
    THEN [calls |-> <<>>, exc |-> "KeyError", value |-> PyNone]
    ELSE IF kwargs.preds.items = <<>>
    THEN [calls |-> <<>>, exc |-> "IndexError", value |-> PyNone]    \* stack([])
    ELSE IF ~kwargs.has_baskets
    THEN [calls |-> <<>>, exc |-> "KeyError", value |-> PyNone]
    ELSE LET preds_for_heads == stack(kwargs.preds)
             n == Min(n_heads, Len(preds_for_heads))
             head_calls == [i \in 1..n |-> Call("head", i, "formatted_preds", preds_for_heads[i])]
             preds_final ==
                 PyList([i \in 1..n_heads |->
                     IF i <= n THEN PyList(<<HeadPred(prediction_heads[i].task_name)>>)
                     ELSE PyList(<<>>)])
             merge_fn == pick_single_fn(prediction_heads)
         IN  IF ~NameBound("pick_single_fn")
             THEN [calls |-> head_calls, exc |-> "NameError", value |-> PyNone]
             ELSE [calls |-> head_calls, exc |-> "",
                   value |-> IF merge_fn # 0
                             THEN Merged(prediction_heads[merge_fn].task_name, preds_final)
                             ELSE preds_final]

\* a dispatch that takes the single-head branch for no head as well
FormattedPredsResultAtMostOne(kwargs, r) ==
    IF Len(prediction_heads) <= 1 THEN FormattedPredsOneHead(kwargs, r)
    ELSE FormattedPredsMultiHead(kwargs)

FormattedPredsResult(kwargs, r) ==
    IF Len(prediction_heads) = 0 THEN FormattedPredsNoHead
    ELSE IF Len(prediction_heads) = 1 THEN FormattedPredsOneHead(kwargs, r)
    ELSE FormattedPredsMultiHead(kwargs)

\* formatted_preds with the logits of the last forward (None before it)
FormattedPreds ==
    \E kwargs \in KwArgs :
      \E r \in IF Len(prediction_heads) = 1 THEN HeadResults(prediction_heads[1].task_name)
               ELSE {PyNone} :
        LET out == FormattedPredsResult(kwargs, r) IN
        /\ ret' = IF out.exc = ""
                  THEN [Returned("formatted_preds", out.value) EXCEPT !.arg = kwargs, !.head = r]
                  ELSE [Raised("formatted_preds", out.exc) EXCEPT !.arg = kwargs, !.head = r]
        /\ calls' = out.calls
        /\ UNCHANGED <<prediction_heads, config, logits, disk, loaded, onnx>>

(***************************************************************************)
(* File names, as sequences of character codes.                            *)
(***************************************************************************)
\* "prediction_head"
StrPredictionHead == <<112, 114, 101, 100, 105, 99, 116, 105, 111, 110, 95, 104, 101, 97, 100>>

\* "config.json"
StrConfigJson == <<99, 111, 110, 102, 105, 103, 46, 106, 115, 111, 110>>

\* ".bin"
StrBin == <<46, 98, 105, 110>>

\* "lm1", "lm2"
StrLm(k) == <<108, 109, 48 + k>>

RECURSIVE Digits(_)
\* str(i) for i >= 0
Digits(i) == IF i < 10 THEN <<48 + i>> ELSE Digits(i \div 10) \o <<48 + (i % 10)>>

\* f"prediction_head_{head_num}_config.json"
ConfigFileName(head_num) == StrPredictionHead \o <<95>> \o Digits(head_num) \o <<95>> \o StrConfigJson

\* f"prediction_head_{head_num}.bin"
WeightsFileName(head_num) == StrPredictionHead \o <<95>> \o Digits(head_num) \o StrBin

\* sub in f
Contains(f, sub) ==
    \E k \in 0..(Len(f) - Len(sub)) : \A j \in 1..Len(sub) : f[k + j] = sub[j]

\* a < b for Python strings
LexLess(a, b) ==
    \E k \in 1..(Min(Len(a), Len(b)) + 1) :
        /\ \A j \in 1..(k - 1) : a[j] = b[j]
        /\ \/ k > Len(a) /\ k <= Len(b)
           \/ k <= Len(a) /\ k <= Len(b) /\ a[k] < b[k]

RECURSIVE SortFiles(_)
\* list.sort() of a set of directory entries, by name
SortFiles(S) ==
    IF S = {} THEN <<>>
    ELSE LET m == CHOOSE x \in S : \A y \in S \ {x} : LexLess(x.name, y.name)
         IN  <<m>> \o SortFiles(S \ {m})

\* a directory entry: its name and, for a head's config file, the head it describes
Entry(name, task, merge) == [name |-> name, task_name |-> task, merge |-> merge]

(***************************************************************************)
(* BiAdaptiveModel.save                                                    *)
(***************************************************************************)
\* PredictionHead.save(save_dir, i): the head's weights file and config file
HeadFiles(h, i) ==
    {Entry(WeightsFileName(i), 0, FALSE), Entry(ConfigFileName(i), h.task_name, h.merge)}

\* the directory after save: the sub-directories lm1 and lm2 with the language
\* models, and the files of head i under index i (0-based), written over
\* whatever had the same names
SaveDir(d) ==
    LET written == {Entry(StrLm(1), 0, FALSE), Entry(StrLm(2), 0, FALSE)}
                   \cup UNION {HeadFiles(prediction_heads[i], i - 1) : i \in 1..Len(prediction_heads)}
        names == {e.name : e \in written}
    IN  [d EXCEPT !.lm1 = language[1], !.lm2 = language[2],
                  !.files = {e \in d.files : e.name \notin names} \cup written]

Save ==
    /\ disk' = SaveDir(disk)
    /\ ret' = Returned("save", PyNone)
    /\ calls' = [k \in 1..2 |-> Call(IF k = 1 THEN "lm1" ELSE "lm2", 0, "save", PyNone)]
               \o [i \in 1..Len(prediction_heads) |-> Call("head", i, "save", PyInt(i - 1))]
    /\ UNCHANGED <<prediction_heads, config, logits, loaded, onnx>>

(***************************************************************************)
(* BiAdaptiveModel.load                                                    *)
(***************************************************************************)
\* a filter with `or` in place of `and`
GetPredictionHeadFilesEither(d) ==
    SortFiles({f \in d.files : Contains(f.name, StrConfigJson) \/ Contains(f.name, StrPredictionHead)})

\* _get_prediction_head_files(load_dir)
GetPredictionHeadFiles(d) ==
    SortFiles({f \in d.files : Contains(f.name, StrConfigJson) /\ Contains(f.name, StrPredictionHead)})

\* PredictionHead.load(config_file, strict=False, load_weights=False)
LoadHead(config_file) == NewHead(config_file.task_name, config_file.merge)

\* load(load_dir, device, processor): [model, exc]; processor.tasks is tasks
\* when has_processor
LoadResult(d, has_processor, tasks) ==
    IF d.lm1 = "" \/ d.lm2 = ""
    THEN [model |-> NoModel, exc |-> "OSError"]      \* LanguageModel.load finds nothing
    ELSE LET ph_config_files == GetPredictionHeadFiles(d)
             heads == [i \in 1..Len(ph_config_files) |-> LoadHead(ph_config_files[i])]
             model == NewModel(heads, DefaultOutputTypes, DefaultOutputTypes, "", <<d.lm1, d.lm2>>)
             bound == ConnectLoop(heads, 1, tasks, TRUE)
         IN  IF ~has_processor THEN [model |-> model, exc |-> ""]
             ELSE IF bound.exc # "" THEN [model |-> NoModel, exc |-> bound.exc]
             ELSE [model |-> [model EXCEPT !.prediction_heads = bound.heads], exc |-> ""]

Load ==
    \E has_processor \in BOOLEAN, bad \in {0, 1} :
        LET r == LoadResult(disk, has_processor, Tasks(1, bad, PyList(<<>>))) IN
        /\ has_processor \/ bad = 0
        /\ loaded' = r.model
        /\ ret' = IF r.exc = "" THEN Returned("load", PyNone) ELSE Raised("load", r.exc)
        /\ calls' = <<>>
        /\ UNCHANGED <<prediction_heads, config, logits, disk, onnx>>

(***************************************************************************)
(* BiAdaptiveModel.get_language                                            *)
(***************************************************************************)
GetLanguage ==
    /\ ret' = Returned("get_language", PyTuple(<<PyStr(language[1]), PyStr(language[2])>>))
    /\ calls' = <<>>
    /\ UNCHANGED <<prediction_heads, config, logits, disk, loaded, onnx>>

(***************************************************************************)
(* BiAdaptiveModel.convert_to_transformers                                 *)
(***************************************************************************)
\* a conversion that looks at the first head before it counts the heads
ConvertInspectingFirst ==
    IF Len(prediction_heads) = 0
    THEN [value |-> PyNone, exc |-> "IndexError"]
    ELSE IF Len(prediction_heads[1].layer_dims) # 2 \/ Len(prediction_heads) # 1
    THEN [value |-> PyNone, exc |-> "ValueError"]
    ELSE [value |-> PyNone, exc |-> "NotImplementedError"]

\* convert_to_transformers(): [value, exc]
ConvertToTransformersResult ==
    IF Len(prediction_heads) # 1
    THEN [value |-> PyNone, exc |-> "ValueError"]
    ELSE IF Len(prediction_heads[1].layer_dims) # 2
    THEN [value |-> PyNone, exc |-> "ValueError"]
    ELSE IF prediction_heads[1].model_type = "language_modelling"
    THEN IF ~NameBound("AutoModelWithLMHead")
         THEN [value |-> PyNone, exc |-> "NameError"]
         ELSE [value |-> PyTuple(<<PyInstance("AutoModelWithLMHead"),
                                   PyInstance("AutoModelWithLMHead")>>),
               exc |-> ""]
    ELSE [value |-> PyNone, exc |-> "NotImplementedError"]

ConvertToTransformers ==
    LET r == ConvertToTransformersResult IN
    /\ ret' = IF r.exc = "" THEN Returned("convert_to_transformers", r.value)
              ELSE Raised("convert_to_transformers", r.exc)
    /\ calls' = <<>>
    /\ UNCHANGED <<prediction_heads, config, logits, disk, loaded, onnx>>

(***************************************************************************)
(* The exported ONNX model of a directory.                                 *)
(***************************************************************************)
\* "model.onnx"
StrModelOnnx == <<109, 111, 100, 101, 108, 46, 111, 110, 110, 120>>

\* "model_config.json"
StrModelConfig == <<109, 111, 100, 101, 108, 95>> \o StrConfigJson

\* (Path(load_dir) / name).is_file()
IsFile(d, name) == \E e \in d.files : e.name = name

\* the directory after an export of the model to ONNX: model.onnx, the config
\* file of every head under its index, and model_config.json with the
\* model's languages
ExportDir(d) ==
    LET written == {Entry(StrModelOnnx, 0, FALSE), Entry(StrModelConfig, 0, FALSE)}
                   \cup {Entry(ConfigFileName(i - 1), prediction_heads[i].task_name,
                               prediction_heads[i].merge) : i \in 1..Len(prediction_heads)}
        names == {e.name : e \in written}
    IN  [d EXCEPT !.model_config = language,
                  !.files = {e \in d.files : e.name \notin names} \cup written]

ExportOnnx ==
    /\ disk' = ExportDir(disk)
    /\ ret' = Returned("convert_to_onnx", PyNone)
    /\ calls' = <<>>
    /\ UNCHANGED <<prediction_heads, config, logits, loaded, onnx>>

(***************************************************************************)
(* ONNXBiAdaptiveModel                                                     *)
(***************************************************************************)
\* str(device) of the devices a caller asks for
Devices == {"cpu", "cuda", "cuda:0"}

\* onnxruntime.get_device() of the installed runtime
Runtimes == {"CPU", "GPU"}

\* ONNXBiAdaptiveModel.__init__(onnx_session, prediction_heads, language, device):
\* [model, exc].  `str(device) == "cuda" and onnxruntime.get_device() != "GPU"`
\* looks onnxruntime up in the module's namespace when the device is "cuda"
OnnxInit(heads, lang, device, runtime) ==
    IF device = "cuda" /\ ~NameBound("onnxruntime")
    THEN [model |-> NoOnnx, exc |-> "NameError"]
    ELSE IF device = "cuda" /\ runtime # "GPU"
    THEN [model |-> NoOnnx, exc |-> "Exception"]
    ELSE [model |-> [built |-> TRUE, prediction_heads |-> heads, language |-> lang,
                     device |-> device, runtime |-> runtime],
          exc |-> ""]

\* the heads of the model as an ONNX model keeps them: loaded from their
\* config files, without weights
ConfigOnlyHeads == [i \in 1..Len(prediction_heads) |->
                       NewHead(prediction_heads[i].task_name, prediction_heads[i].merge)]

\* a caller builds an ONNXBiAdaptiveModel over the model's heads and languages
OnnxConstruct ==
    \E device \in Devices, runtime \in Runtimes :
        LET r == OnnxInit(ConfigOnlyHeads, language, device, runtime) IN
        /\ onnx' = IF r.exc = "" THEN r.model ELSE onnx
        /\ ret' = IF r.exc = ""
                  THEN [Returned("ONNXBiAdaptiveModel.__init__", PyNone)
                           EXCEPT !.arg = [device |-> device, runtime |-> runtime]]
                  ELSE [Raised("ONNXBiAdaptiveModel.__init__", r.exc)
                           EXCEPT !.arg = [device |-> device, runtime |-> runtime]]
        /\ calls' = <<>>
        /\ UNCHANGED <<prediction_heads, config, logits, disk, loaded>>

\* the first output of the ONNX session
OnnxLogits == [t |-> "logits", v |-> 0, items |-> <<>>]

\* ONNXBiAdaptiveModel.forward: [value, exc]; torch_cuda says whether torch
\* can reach the device the result is moved to
OnnxForwardResult(torch_cuda) ==
    IF onnx.device # "cpu" /\ ~torch_cuda
    THEN [value |-> PyNone, exc |-> "RuntimeError"]      \* .to(self.device)
    ELSE [value |-> PyList(<<OnnxLogits>>), exc |-> ""]

OnnxForward ==
    /\ onnx.built
    /\ \E torch_cuda \in BOOLEAN :
         LET r == OnnxForwardResult(torch_cuda) IN
         /\ ret' = IF r.exc = "" THEN Returned("ONNXBiAdaptiveModel.forward", r.value)
                   ELSE Raised("ONNXBiAdaptiveModel.forward", r.exc)
         /\ calls' = <<Call("onnx_session", 0, "run", PyNone)>>
    /\ UNCHANGED <<prediction_heads, config, logits, disk, loaded, onnx>>

\* ONNXBiAdaptiveModel.get_language: self.language
OnnxGetLanguage ==
    /\ onnx.built
    /\ ret' = Returned("ONNXBiAdaptiveModel.get_language",
                       PyTuple(<<PyStr(onnx.language[1]), PyStr(onnx.language[2])>>))
    /\ calls' = <<>>
    /\ UNCHANGED <<prediction_heads, config, logits, disk, loaded, onnx>>

\* `_, ph_config_files = l`: [second, exc]
UnpackPair(l) ==
    IF Len(l) = 2 THEN [second |-> PyPath(l[2]), exc |-> ""]
    ELSE [second |-> PyNone, exc |-> "ValueError"]

\* ONNXBiAdaptiveModel.load(load_dir, device): [model, exc], for a directory
\* whose model.onnx the runtime reads
OnnxLoadResult(d, device, runtime) ==
    LET unpacked == UnpackPair(GetPredictionHeadFiles(d))
        ph_config_files == unpacked.second
        heads == [i \in 1..Len(ph_config_files.items) |-> LoadHead(ph_config_files.items[i])]
    IN  IF unpacked.exc # "" THEN [model |-> NoOnnx, exc |-> unpacked.exc]
        ELSE IF ph_config_files.t # "list"
        THEN [model |-> NoOnnx, exc |-> "TypeError"]     \* for ... in a Path
        ELSE IF ~IsFile(d, StrModelConfig)
        THEN [model |-> NoOnnx, exc |-> "FileNotFoundError"]
        ELSE OnnxInit(heads, d.model_config, device, runtime)

(***************************************************************************)
(* BaseBiAdaptiveModel.load                                                *)
(***************************************************************************)
\* load(load_dir=..., device=..., processor=...): the class the directory
\* selects loads it
BaseLoad ==
    \E device \in Devices, runtime \in Runtimes, has_processor \in BOOLEAN :
        IF IsFile(disk, StrModelOnnx)
        THEN LET r == OnnxLoadResult(disk, device, runtime) IN
             /\ ~has_processor
             /\ onnx' = IF r.exc = "" THEN r.model ELSE onnx
             /\ ret' = IF r.exc = ""
                       THEN Returned("BaseBiAdaptiveModel.load", PyInstance("ONNXBiAdaptiveModel"))
                       ELSE Raised("BaseBiAdaptiveModel.load", r.exc)
             /\ calls' = <<>>
             /\ UNCHANGED <<prediction_heads, config, logits, disk, loaded>>
        ELSE LET r == LoadResult(disk, has_processor, Tasks(1, 0, PyList(<<>>))) IN
             /\ device = "cpu" /\ runtime = "CPU"
             /\ loaded' = r.model
             /\ ret' = IF r.exc = ""
                       THEN Returned("BaseBiAdaptiveModel.load", PyInstance("BiAdaptiveModel"))
                       ELSE Raised("BaseBiAdaptiveModel.load", r.exc)
             /\ calls' = <<>>
             /\ UNCHANGED <<prediction_heads, config, logits, disk, onnx>>

Next ==
    \/ Forward
    \/ Connect
    \/ LogitsToLoss

\* training: forward, binding the heads, computing the loss
Spec == Init /\ [][Next]_vars

NextInfer ==
    \/ Forward
    \/ FormattedPreds

\* inference: forward, formatting the predictions
SpecInfer == Init /\ [][NextInfer]_vars

NextPersist ==
    \/ Save
    \/ Load

\* persistence: saving to and loading from the directory
SpecPersist == Init /\ [][NextPersist]_vars

\* a model built with ManyHeads heads
InitMany ==
    /\ \E a \in ConstructorArgs(ManyHeads) : Construct(a)
    /\ logits = PyNone
    /\ calls = <<>>
    /\ ret = Returned("__init__", PyNone)
    /\ disk = EmptyDir
    /\ loaded = NoModel
    /\ onnx = NoOnnx

\* persistence of a model with many heads
SpecPersistMany == InitMany /\ [][NextPersist]_vars

\* the constructor arguments of the models whose heads are bound, for n heads
BindArgs(n) ==
    {[heads |-> [i \in 1..n |-> NewHead(i, FALSE)], types1 |-> PlainTypes(n),
      types2 |-> PlainTypes(n), agg |-> "", lang |-> <<"english", "german">>],
     [heads |-> [i \in 1..n |-> NewHead(i, FALSE)], types1 |-> DefaultOutputTypes,
      types2 |-> DefaultOutputTypes, agg |-> "", lang |-> <<"english", "german">>]}

InitBind ==
    /\ \E n \in HeadCounts : \E a \in BindArgs(n) : Construct(a)
    /\ logits = PyNone
    /\ calls = <<>>
    /\ ret = Returned("__init__", PyNone)
    /\ disk = EmptyDir
    /\ loaded = NoModel
    /\ onnx = NoOnnx

\* binding the heads to task tables, again and again, between forward passes
\* and loss computations
SpecBind == InitBind /\ [][Next]_vars

NextAll ==
    \/ Forward
    \/ LogitsToLoss
    \/ LogitsToPreds
    \/ FormattedPreds
    \/ Connect
    \/ Save

\* the life of one model instance: every operation a trainer, an evaluator or
\* an inferencer calls on it
SpecAll == InitBind /\ [][NextAll]_vars

\* the constructor arguments of the models that are converted, for n heads:
\* the first head has any layer_dims and model_type
ConvertArgs(n) ==
    {[heads |-> [i \in 1..n |-> IF i = 1
                                THEN [NewHead(i, FALSE) EXCEPT !.layer_dims = d, !.model_type = t]
                                ELSE NewHead(i, FALSE)],
      types1 |-> PlainTypes(n), types2 |-> PlainTypes(n), agg |-> "",
      lang |-> <<"english", "german">>] : d \in LayerDims, t \in ModelTypes}

InitConvert ==
    /\ \E n \in HeadCounts : \E a \in ConvertArgs(n) : Construct(a)
    /\ logits = PyNone
    /\ calls = <<>>
    /\ ret = Returned("__init__", PyNone)
    /\ disk = EmptyDir
    /\ loaded = NoModel
    /\ onnx = NoOnnx

NextConvert ==
    \/ Forward
    \/ Save
    \/ ConvertToTransformers

\* the conversion of a model, fresh or used or saved, to transformers
SpecConvert == InitConvert /\ [][NextConvert]_vars

NextBackend ==
    \/ Forward
    \/ GetLanguage
    \/ Save
    \/ ExportOnnx
    \/ BaseLoad
    \/ OnnxConstruct
    \/ OnnxForward
    \/ OnnxGetLanguage

\* the constructor arguments of the models whose backends are compared, for
\* n heads: the default output types with every pair of languages, and one
\* mode per head
BackendArgs(n) ==
    {[heads |-> [i \in 1..n |-> NewHead(i, FALSE)], types1 |-> DefaultOutputTypes,
      types2 |-> DefaultOutputTypes, agg |-> "", lang |-> l] : l \in Languages \X Languages}
    \cup {[heads |-> [i \in 1..n |-> NewHead(i, FALSE)], types1 |-> PlainTypes(n),
           types2 |-> PlainTypes(n), agg |-> "", lang |-> <<"english", "german">>]}

InitBackend ==
    /\ \E n \in HeadCounts : \E a \in BackendArgs(n) : Construct(a)
    /\ logits = PyNone
    /\ calls = <<>>
    /\ ret = Returned("__init__", PyNone)
    /\ disk = EmptyDir
    /\ loaded = NoModel
    /\ onnx = NoOnnx

\* the two backends: the model, its saved and exported forms, the selecting
\* load and the ONNX model
SpecBackend == InitBackend /\ [][NextBackend]_vars

\* another BiAdaptiveModel is built and takes the place of the current one;
\* the directory and what was loaded from it stay
Reconstruct ==
    \E n \in HeadCounts : \E a \in BindArgs(n) :
        LET m == NewModel(a.heads, a.types1, a.types2, a.agg, a.lang) IN
        /\ prediction_heads' = m.prediction_heads
        /\ lm1_output_types' = m.lm1_output_types
        /\ lm2_output_types' = m.lm2_output_types
        /\ loss_aggregation_fn' = m.loss_aggregation_fn
        /\ language' = m.language
        /\ logits' = PyNone
        /\ calls' = <<>>
        /\ ret' = Returned("__init__", PyNone)
        /\ UNCHANGED <<disk, loaded, onnx>>

NextResave ==
    \/ Reconstruct
    \/ Save
    \/ Load

\* models with different numbers of heads saved into one directory, and
\* loaded from it
SpecResave == InitBind /\ [][NextResave]_vars
(***************************************************************************)
(* Notions the properties share.                                           *)
(***************************************************************************)
NHeads == Len(prediction_heads)

\* the model was built with the default lm1_output_types and lm2_output_types
BuiltWithDefaultTypes ==
    /\ lm1_output_types = NormOutputTypes(DefaultOutputTypes)
    /\ lm2_output_types = NormOutputTypes(DefaultOutputTypes)

\* the positions of the heads whose forward the last operation invoked, in order
HeadsInvoked(fn) ==
    LET cs == SelectSeq(calls, LAMBDA c : c.obj = "head" /\ c.fn = fn)
    IN  [k \in 1..Len(cs) |-> cs[k].idx]

\* the logits of every head, in the order of the heads
LogitsOfAllHeads == PyList([i \in 1..NHeads |-> HeadLogits(prediction_heads[i].task_name)])

PooledPair == PyTuple(<<Pooled(1), Pooled(2)>>)

\* the heads that have no label_tensor_name
Unconnected == {i \in 1..NHeads : "label_tensor_name" \notin prediction_heads[i].attrs}

(***************************************************************************)
(* C1: a model built with N heads and the default output types returns     *)
(* from forward one entry per head, entry i being the logits of head i; for *)
(* N = 0 it returns the pair of pooled outputs (accepted here both as the  *)
(* tuple itself and as the only entry of the returned list).  The code     *)
(* zips the heads with the one-element default lists, so this fails for    *)
(* N >= 2.                                                                 *)
(***************************************************************************)
C1_ForwardOneEntryPerHead ==
    (ret.op = "forward" /\ BuiltWithDefaultTypes) =>
        /\ ret.status = "ok"
        /\ IF NHeads = 0
           THEN ret.value = PooledPair \/ ret.value = PyList(<<PooledPair>>)
           ELSE ret.value = LogitsOfAllHeads

(***************************************************************************)
(* C2.  The positions forward's loop reaches whose mode, on either stream, *)
(* is per_token.                                                           *)
(***************************************************************************)
PerTokenPositions ==
    {i \in 1..ZipLen : lm1_output_types[i] = "per_token" \/ lm2_output_types[i] = "per_token"}

C3_UnconnectedHeadFailsLoss ==
    (ret.op = "logits_to_loss" /\ Unconnected # {}) =>
        /\ ret.status = "raise"
        /\ ret.exc = "AssertionError"

(***************************************************************************)
(* C4: with no loss_aggregation_fn supplied, logits_to_loss returns the    *)
(* per-sample sum of the loss vectors of the heads it collected a loss     *)
(* from: result[s] is the sum over those heads h of loss_h[s] (the int 0   *)
(* when there is none).                                                    *)
(***************************************************************************)
\* the number of heads logits_to_loss_per_head pairs with a logits entry
NPaired == Min(NHeads, Len(logits.items))

RECURSIVE SumOverHeads(_, _)
\* loss_1[s] + ... + loss_m[s]
SumOverHeads(m, s) ==
    IF m = 0 THEN 0
    ELSE SumOverHeads(m - 1, s) + HeadLoss(prediction_heads[m].task_name)[s]

C6_NoHeadReturnsEncoderResults ==
    (ret.op = "formatted_preds" /\ NHeads = 0) =>
        /\ calls = <<Call("lm1", 0, "formatted_preds", logits), Call("lm2", 0, "formatted_preds", logits)>>
        /\ ret.status = "ok"
        /\ ret.value = PyTuple(<<LMPred(1), LMPred(2)>>)

(***************************************************************************)
(* C7, C8.  A well-formed multi-head call: preds and baskets are passed,   *)
(* and preds holds one list per head.                                      *)
(***************************************************************************)
WellFormedMultiCall ==
    /\ ret.arg.has_preds
    /\ ret.arg.has_baskets
    /\ ret.arg.preds.items # <<>>
    /\ Len(ret.arg.preds.items[1].items) = NHeads

\* the un-merged result: bucket i holds the formatted result of head i
Buckets == PyList([i \in 1..NHeads |-> PyList(<<HeadPred(prediction_heads[i].task_name)>>)])

MergingHeads == {i \in 1..NHeads : prediction_heads[i].merge}

\* C7: with exactly 2 heads of which exactly one exposes merge_formatted_preds,
\* formatted_preds returns that head's merge of the per-head buckets.  The
\* code calls pick_single_fn, which the module never imports.
C7_SingleMergeReturned ==
    (ret.op = "formatted_preds" /\ NHeads = 2 /\ Cardinality(MergingHeads) = 1
       /\ WellFormedMultiCall) =>
        /\ ret.status = "ok"
        /\ \E i \in MergingHeads : ret.value = Merged(prediction_heads[i].task_name, Buckets)

\* C8: with exactly 2 heads of which none or both expose merge_formatted_preds,
\* formatted_preds raises nothing and returns the two un-merged buckets.
C8_NoMergeReturnsBuckets ==
    (ret.op = "formatted_preds" /\ NHeads = 2 /\ Cardinality(MergingHeads) # 1
       /\ WellFormedMultiCall) =>
        /\ ret.status = "ok"
        /\ ret.value = Buckets

(***************************************************************************)
(* C9.  The single head's call, and two readings of the preds it is given. *)
(***************************************************************************)
\* the argument the single head's formatted_preds was called with
PredsPassedToHead == calls[1].arg

\* a list of lists flattened by one level
FlattenOneLevel(x) == PyList(Concat([k \in 1..Len(x.items) |-> x.items[k].items]))

\* the first element of every entry of a list
FirstOfEach(x) == PyList([k \in 1..Len(x.items) |-> x.items[k].items[1]])

\* what the 1-head branch returns for the head's result r, as claimed
ResultShapeAsClaimed ==
    /\ ret.head.t = "list" => ret.value = ret.head
    /\ (ret.head.t = "dict" /\ ret.head.v = 1) => ret.value = PyList(<<ret.head>>)

\* C9 as claimed: the head is passed preds flattened by one level (None when
\* preds is absent); a list result is returned as it is, a dict with a
\* "predictions" key inside a one-element list.
C9_Original_OneLevelFlatten ==
    (ret.op = "formatted_preds" /\ NHeads = 1 /\ ret.status = "ok") =>
        /\ PredsPassedToHead = IF ret.arg.has_preds THEN FlattenOneLevel(ret.arg.preds) ELSE PyNone
        /\ ResultShapeAsClaimed

\* C9 as amended: the head is passed the first elements of the entries of
\* preds, joined into one list (None when preds is absent); the result shapes
\* are as claimed.
C9_FirstElementsFlattened ==
    (ret.op = "formatted_preds" /\ NHeads = 1 /\ ret.status = "ok") =>
        /\ Len(calls) = 1
        /\ PredsPassedToHead = IF ret.arg.has_preds
                               THEN FlattenOneLevel(FirstOfEach(ret.arg.preds)) ELSE PyNone
        /\ ResultShapeAsClaimed

\* C9 witness: preds of two batches was passed, the head returned a dict with
\* "predictions", and it came back inside a one-element list
C9_Witness ==
    /\ ret.op = "formatted_preds"
    /\ NHeads = 1
    /\ ret.status = "ok"
    /\ ret.arg.has_preds
    /\ Len(ret.arg.preds.items) = 2
    /\ PredsPassedToHead = PyList(<<PyInt(1), PyInt(2), PyInt(3)>>)
    /\ ret.head = PyDict(TRUE)
    /\ ret.value = PyList(<<PyDict(TRUE)>>)

(***************************************************************************)
(* C10: save into the empty directory followed by load yields a model with *)
(* as many heads as the saved one and the same pair of language tags.      *)
(***************************************************************************)
C10_SaveLoadRoundTrip ==
    (ret.op = "load" /\ ret.status = "ok") =>
        /\ loaded.built
        /\ Len(loaded.prediction_heads) = NHeads
        /\ loaded.language = language

\* C10 witness: a model with the most heads and two different languages was
\* saved and loaded
C10_Witness ==
    /\ ret.op = "load"
    /\ ret.status = "ok"
    /\ NHeads = MaxHeads
    /\ language[1] # language[2]
    /\ Len(loaded.prediction_heads) = MaxHeads
    /\ loaded.language = language

(***************************************************************************)
(* C11: after save, the sorted head config file names are                  *)
(* prediction_head_0_config.json, prediction_head_1_config.json, ... in    *)
(* increasing index, and the head at every position of the loaded model is *)
(* the head saved at that position.  The sort is a string sort, which puts *)
(* index 10 before index 2.                                                *)
(***************************************************************************)
\* the names of the head config files of the directory, as load orders them
SortedConfigNames ==
    LET fs == GetPredictionHeadFiles(disk) IN [i \in 1..Len(fs) |-> fs[i].name]

C11_LoadedHeadOrderIsSavedOrder ==
    (ret.op = "load" /\ ret.status = "ok") =>
        /\ SortedConfigNames = [i \in 1..NHeads |-> ConfigFileName(i - 1)]
        /\ Len(loaded.prediction_heads) = NHeads
        /\ \A i \in 1..NHeads :
              /\ loaded.prediction_heads[i].task_name = prediction_heads[i].task_name
              /\ loaded.prediction_heads[i].merge = prediction_heads[i].merge

(***************************************************************************)
(* C12: BaseBiAdaptiveModel.load returns an ONNXBiAdaptiveModel for every  *)
(* directory that holds model.onnx, whatever the number of head config     *)
(* files in it, and a BiAdaptiveModel for every directory without it (which *)
(* may still lack the language models: that failure is not about the head  *)
(* config files).  The ONNX load unpacks the list of head config files     *)
(* into two names.                                                         *)
(***************************************************************************)
C12_MarkerSelectsBackend ==
    ret.op = "BaseBiAdaptiveModel.load" =>
        IF IsFile(disk, StrModelOnnx)
        THEN ret.status = "ok" /\ ret.value = PyInstance("ONNXBiAdaptiveModel")
        ELSE \/ ret.status = "ok" /\ ret.value = PyInstance("BiAdaptiveModel")
             \/ ret.status = "raise" /\ ret.exc = "OSError" /\ (disk.lm1 = "" \/ disk.lm2 = "")

(***************************************************************************)
(* C13, C14.  The task tables and the fields a table gives a head.         *)
(***************************************************************************)
\* the task tables a caller passes
TaskTables ==
    {Tasks(v, bad, badList) : v \in TableVersions, bad \in 0..MaxHeads, badList \in BadLabelLists}

\* head h carries the label_tensor_name, label_list and metric of its task in tasks
BoundTo(h, tasks) ==
    /\ h.label_tensor_name = tasks[h.task_name].label_tensor_name
    /\ h.label_list = tasks[h.task_name].label_list
    /\ h.metric = tasks[h.task_name].metric
    /\ {"label_tensor_name", "label_list", "metric"} \subseteq h.attrs

\* the label list tasks resolves for some head is empty or None
SomeLabelListMissing(tasks) ==
    \E i \in 1..NHeads : ~Truthy(tasks[prediction_heads[i].task_name].label_list)

\* C13: every step that is connect_heads_with_processor(tasks,
\* require_labels=True) raises the missing-labels Exception if the label list
\* of some head is empty or None, and otherwise returns with every head's
\* label_tensor_name, label_list and metric set to those of tasks[head.task_name].
C13_ConnectBindsOrFails ==
    [][\A tasks \in TaskTables :
         (ret'.op = "connect_heads_with_processor" /\ ConnectHeadsWithProcessor(tasks, TRUE)) =>
            IF SomeLabelListMissing(tasks)
            THEN ret'.status = "raise" /\ ret'.exc = "Exception"
            ELSE /\ ret'.status = "ok"
                 /\ Len(prediction_heads') = NHeads
                 /\ \A i \in 1..NHeads : BoundTo(prediction_heads'[i], tasks)]_vars

\* C13 witness: a call failed on a missing label list after a call had bound
\* every one of several heads
C13_Witness ==
    /\ ret.op = "connect_heads_with_processor"
    /\ ret.status = "raise"
    /\ ret.exc = "Exception"
    /\ NHeads >= 2
    /\ \E tasks \in TaskTables : \A i \in 2..NHeads : BoundTo(prediction_heads[i], tasks)

\* C14: every step that is a successful connect_heads_with_processor(tasks,
\* require_labels), from whatever state earlier calls left the heads in, ends
\* with every head carrying the values of tasks, and calling it again with the
\* same arguments succeeds and changes no head.
C14_LastCallWinsIdempotent ==
    [][\A tasks \in TaskTables, require_labels \in BOOLEAN :
         (/\ ret'.op = "connect_heads_with_processor"
          /\ ret'.status = "ok"
          /\ ConnectHeadsWithProcessor(tasks, require_labels)) =>
            /\ \A i \in 1..NHeads : BoundTo(prediction_heads'[i], tasks)
            /\ ConnectLoop(prediction_heads', 1, tasks, require_labels)
                 = [heads |-> prediction_heads', exc |-> ""]]_vars

\* C14 witness: a call with the second table, whose entry for the second task
\* has an empty label list, bound every head of the largest model
C14_Witness ==
    /\ ret.op = "connect_heads_with_processor"
    /\ ret.status = "ok"
    /\ NHeads = MaxHeads
    /\ \A i \in 1..NHeads : BoundTo(prediction_heads[i], Tasks(2, 2, PyList(<<>>)))

(***************************************************************************)
(* C15: on a model with heads, logits_to_preds of the logits forward       *)
(* returned gives one entry per head, entry i being head i's               *)
(* logits_to_preds of logits entry i, so the result is as long as the      *)
(* heads and as the logits.  The loop zips the heads with the logits, and  *)
(* forward may have returned fewer entries than there are heads.           *)
(***************************************************************************)
C15_OnePredictionPerHead ==
    (ret.op = "logits_to_preds" /\ NHeads >= 1) =>
        /\ ret.status = "ok"
        /\ Len(ret.value.items) = NHeads
        /\ Len(ret.value.items) = Len(logits.items)
        /\ \A i \in 1..Len(ret.value.items) :
              ret.value.items[i] = HeadPreds(prediction_heads[i].task_name, logits.items[i])

(***************************************************************************)
(* C16: on a BiAdaptiveModel and on an ONNXBiAdaptiveModel alike, a        *)
(* forward that returns gives one logits entry per head of the instance,   *)
(* and get_language gives the pair of languages of the instance.  The      *)
(* first zips the heads with the output type lists, the second returns the *)
(* first output of its session only.                                       *)
(***************************************************************************)
\* the pair of languages as get_language returns it
LanguagePair(l) == PyTuple(<<PyStr(l[1]), PyStr(l[2])>>)

C16_BackendsShareInterface ==
    /\ (ret.op = "forward" /\ ret.status = "ok" /\ NHeads >= 1) =>
           /\ ret.value.t = "list"
           /\ Len(ret.value.items) = NHeads
    /\ (ret.op = "ONNXBiAdaptiveModel.forward" /\ ret.status = "ok"
          /\ Len(onnx.prediction_heads) >= 1) =>
           /\ ret.value.t = "list"
           /\ Len(ret.value.items) = Len(onnx.prediction_heads)
    /\ ret.op = "get_language" =>
           ret.status = "ok" /\ ret.value = LanguagePair(language)
    /\ ret.op = "ONNXBiAdaptiveModel.get_language" =>
           ret.status = "ok" /\ ret.value = LanguagePair(onnx.language)

(***************************************************************************)
(* C17: whenever a model, built by the constructor or returned by load,    *)
(* has at least one head, its lm1_output_types and lm2_output_types are as *)
(* long as its prediction_heads.  The constructor stores the lists it is   *)
(* given (one element by default) and load always passes the defaults.     *)
(***************************************************************************)
C17_OneOutputTypePerHead ==
    /\ NHeads >= 1 =>
           /\ Len(lm1_output_types) = NHeads
           /\ Len(lm2_output_types) = NHeads
    /\ (loaded.built /\ Len(loaded.prediction_heads) >= 1) =>
           /\ Len(loaded.lm1_output_types) = Len(loaded.prediction_heads)
           /\ Len(loaded.lm2_output_types) = Len(loaded.prediction_heads)

(***************************************************************************)
(* C18.  The head-count mode and the branches the operations take.         *)
(***************************************************************************)
\* the task names of the heads, in order
HeadOrder == [i \in 1..NHeads |-> prediction_heads[i].task_name]

HeadCountMode(n) == IF n = 0 THEN "Embedding" ELSE IF n = 1 THEN "Single" ELSE "Multi"

\* the forward that just ran returned the pooled outputs without entering
\* the loop over the heads
ForwardTookEmbeddingBranch ==
    /\ ret.status = "ok"
    /\ calls = ForwardLMCalls
    /\ ret.value = PyList(<<PooledPair>>)

\* the branch the formatted_preds that just ran took: the one that asks the
\* language models, the one that fails on missing preds or baskets or reaches
\* the merge lookup, or the one for a single head
FormattedPredsBranch ==
    IF calls # <<>> /\ calls[1].obj = "lm1" THEN "Embedding"
    ELSE IF ret.status = "raise" /\ ret.exc \in {"KeyError", "IndexError", "NameError"}
    THEN "Multi"
    ELSE "Single"

\* C18: no forward, logits_to_loss, logits_to_preds, formatted_preds,
\* connect_heads_with_processor or save step changes the number or the order
\* of the heads, and every forward and every formatted_preds takes the branch
\* of the head-count mode the model has had since construction.
C18_HeadCountModeFixed ==
    [][/\ HeadOrder' = HeadOrder
       /\ ret'.op = "forward" =>
             (ForwardTookEmbeddingBranch' <=> HeadCountMode(NHeads) = "Embedding")
       /\ ret'.op = "formatted_preds" =>
             FormattedPredsBranch' = HeadCountMode(NHeads)]_vars

\* C18 witness: formatted_preds took the multi-head branch on a model whose
\* heads have been bound, that has run forward and has been saved
C18_Witness ==
    /\ ret.op = "formatted_preds"
    /\ FormattedPredsBranch = "Multi"
    /\ HeadOrder = [i \in 1..MaxHeads |-> i]
    /\ Unconnected = {}
    /\ logits # PyNone
    /\ disk # EmptyDir

(***************************************************************************)
(* C19: convert_to_transformers fails with the unsupported-conversion      *)
(* ValueError for every model that does not have exactly one head whose    *)
(* layer_dims has length 2; with no head it is that error too, as the       *)
(* number of heads is checked before a head is looked at.                  *)
(***************************************************************************)
\* exactly one head, of a single layer
Convertible == NHeads = 1 /\ Len(prediction_heads[1].layer_dims) = 2

C19_UnsupportedConversionFails ==
    (ret.op = "convert_to_transformers" /\ ~Convertible) =>
        /\ ret.status = "raise"
        /\ ret.exc = "ValueError"

\* C19 witness: the conversion of a model with one head of two layers, and
\* of one language-modelling type, failed
C19_Witness ==
    /\ ret.op = "convert_to_transformers"
    /\ ret.status = "raise"
    /\ NHeads = 1
    /\ Len(prediction_heads[1].layer_dims) = 3
    /\ prediction_heads[1].model_type = "language_modelling"

(***************************************************************************)
(* C20: an ONNXBiAdaptiveModel asked to run on an accelerator while the    *)
(* ONNX runtime has no GPU fails with the device Exception, when it is     *)
(* built or at the latest when forward runs, and forward returns no logits *)
(* for it.  The constructor's check names onnxruntime, which the module    *)
(* does not import, and compares the device with "cuda" only.              *)
(***************************************************************************)
Accelerator(device) == device # "cpu"

C20_AcceleratorWithoutRuntimeFails ==
    /\ (ret.op = "ONNXBiAdaptiveModel.__init__" /\ ret.status = "raise"
          /\ Accelerator(ret.arg.device) /\ ret.arg.runtime # "GPU") =>
           ret.exc = "Exception"
    /\ (ret.op = "ONNXBiAdaptiveModel.forward"
          /\ Accelerator(onnx.device) /\ onnx.runtime # "GPU") =>
           /\ ret.status = "raise"
           /\ ret.exc = "Exception"

(***************************************************************************)
(* C21: on a model with one head, formatted_preds does not return          *)
(* normally when what the head returned is neither a list nor a dict with  *)
(* the key "predictions".  The branch tests for these two shapes and has   *)
(* no else: it returns the empty list it started with.                     *)
(***************************************************************************)
\* what the head returned is one of the two shapes the branch handles
HeadResultAccepted == ret.head.t = "list" \/ (ret.head.t = "dict" /\ ret.head.v = 1)

C21_UnknownHeadResultNotSwallowed ==
    (ret.op = "formatted_preds" /\ NHeads = 1 /\ ~HeadResultAccepted) =>
        ret.status = "raise"

(***************************************************************************)
(* C22: a connect_heads_with_processor step that raises the missing-labels *)
(* Exception leaves prediction_heads as it was, and so after every step a  *)
(* head that has label_tensor_name (what logits_to_loss_per_head asserts)  *)
(* carries label_tensor_name, label_list and metric of one task table.     *)
(* The loop assigns label_tensor_name before it tests the label list, and  *)
(* the heads before the failing one are already rebound when it raises.    *)
(***************************************************************************)
\* head h passes the assertion of logits_to_loss_per_head
PassesConnectedCheck(h) == "label_tensor_name" \in h.attrs

C22_FailedConnectChangesNoHead ==
    [][/\ (/\ ret'.op = "connect_heads_with_processor"
           /\ ret'.status = "raise"
           /\ ret'.exc = "Exception") => prediction_heads' = prediction_heads
       /\ \A i \in 1..Len(prediction_heads') :
            PassesConnectedCheck(prediction_heads'[i]) =>
                \E tasks \in TaskTables : BoundTo(prediction_heads'[i], tasks)]_vars

(***************************************************************************)
(* C24: every step that is connect_heads_with_processor(tasks,             *)
(* require_labels=False) returns without an exception, whatever label      *)
(* lists tasks holds for the heads (a list of labels, [] or None), and     *)
(* ends with every head carrying label_tensor_name, label_list and metric  *)
(* of tasks[head.task_name].  The loop takes len(label_list) after it has  *)
(* assigned label_list, which is a TypeError for None.                     *)
(***************************************************************************)
C24_ConnectWithoutLabelsCompletes ==
    [][\A tasks \in TaskTables :
         (ret'.op = "connect_heads_with_processor" /\ ConnectHeadsWithProcessor(tasks, FALSE)) =>
            /\ ret'.status = "ok"
            /\ Len(prediction_heads') = NHeads
            /\ \A i \in 1..NHeads : BoundTo(prediction_heads'[i], tasks)]_vars

(***************************************************************************)
(* C23: whatever models were saved into the directory before, a load that  *)
(* follows a save yields a model with as many heads as the model that was  *)
(* just saved.  save writes the files of its own heads and removes none,   *)
(* and load takes every head config file it finds.                         *)
(***************************************************************************)
C23_LoadYieldsLastSavedHeadCount ==
    [][(ret.op = "save" /\ ret'.op = "load" /\ ret'.status = "ok") =>
          Len(loaded'.prediction_heads) = NHeads]_vars
====
